---- MODULE Spec2Model ----
(***************************************************************************)
(* RectDomain (domains.py): an axis-aligned rectangle given by a minimum   *)
(* corner and a size, both Vector2 objects held by reference.              *)
(*                                                                         *)
(* Python objects are modelled by a heap of Vector2 objects (heap) and by  *)
(* the RectDomain objects the caller holds (dom); a RectDomain's fields    *)
(* are references into the heap, so that sharing of a Vector2 between two  *)
(* rectangles, or between a rectangle and its caller, is visible.  ret is  *)
(* the last call made and what it returned.                                *)
(*                                                                         *)
(* Coordinates are Python floats; the model draws them from integers, on   *)
(* which float64 arithmetic is exact (all magnitudes stay below 2^53).     *)
(* The one narrowing conversion of the source, the float32 array that      *)
(* reflectPoint fills, is modelled by Float32.                             *)
(***************************************************************************)
EXTENDS Integers, Sequences, FiniteSets

VARIABLES heap, dom, ret

vars == <<heap, dom, ret>>

(***************************************************************************)
(* Bounds of the model.                                                    *)
(***************************************************************************)
\* Number of Vector2 objects the heap can hold.
MaxVecs == 6
\* Components of the vectors of the object-lifecycle specification: 0..MaxSmall.
MaxSmall == 1
\* Minimum corners of the rectangle pairs: 0..MaxCoord on each axis.
MaxCoord == 1
\* Sizes of the rectangle pairs: -1..MaxSize (no validation: -1 is allowed).
MaxSize == 1
\* Sizes of the rectangles that points are tried on: -1..MaxExtent.
MaxExtent == 2
\* Query points reach PointPad beyond the rectangles on either side.
PointPad == 1

(***************************************************************************)
(* float32: 24 significant bits.  Integers of magnitude up to 2^24 are     *)
(* exact; in [2^24, 2^25) only the multiples of 2 are representable, and   *)
(* in [2^25, 2^26) only the multiples of 4.                                *)
(***************************************************************************)
Float32Exact == 16777216

VecIds == 1..MaxVecs
NullId == 0
DomIds == {"A", "B"}

\* A heap cell that holds no object.
Free == <<>>
\* A RectDomain that has not been constructed / the None reference.
None == [minCorner |-> NullId, size |-> NullId]

NoPoint == <<>>
NoRet == [op |-> "none", self |-> "-", other |-> "-", point |-> NoPoint,
          bool |-> FALSE, rect |-> None, pts |-> <<>>]

(***************************************************************************)
(* Vector2 (module primitives): a pair of floats with indexed access,      *)
(* component-wise subtraction and component-wise equality.  Python's       *)
(* index 0 is index 1 here.                                                *)
(***************************************************************************)
Vector2(x, y) == <<x, y>>

VecSub(a, b) == Vector2(a[1] - b[1], a[2] - b[2])

VecEq(a, b) == a[1] = b[1] /\ a[2] = b[2]

(***************************************************************************)
(* The float32 conversion of the array reflectPoint returns (np.empty with *)
(* dtype=np.float32): round to nearest, ties to the even significand.      *)
(***************************************************************************)
Abs(v) == IF v < 0 THEN -v ELSE v

RECURSIVE UlpOf(_, _)
UlpOf(a, u) == IF a < Float32Exact * u THEN u ELSE UlpOf(a, 2 * u)

RoundToMultiple(a, u) ==
    LET q == a \div u
        rem == a % u
    IN  IF 2 * rem < u THEN q * u
        ELSE IF 2 * rem > u THEN (q + 1) * u
        ELSE IF q % 2 = 0 THEN q * u ELSE (q + 1) * u

Float32(v) ==
    LET a == Abs(v)
        m == RoundToMultiple(a, UlpOf(a, 1))
    IN  IF v < 0 THEN -m ELSE m

(***************************************************************************)
(* list.sort() on a list of numbers: ascending order.                      *)
(***************************************************************************)
RECURSIVE Insert(_, _)
Insert(x, s) ==
    IF s = <<>> THEN <<x>>
    ELSE IF x <= Head(s) THEN <<x>> \o s
    ELSE <<Head(s)>> \o Insert(x, Tail(s))

RECURSIVE Sort(_)
Sort(s) == IF s = <<>> THEN <<>> ELSE Insert(Head(s), Sort(Tail(s)))

(***************************************************************************)
(* RectDomain's methods.  h is the heap, self and domain are RectDomain    *)
(* objects (records of two references), point is a pair of numbers.        *)
(***************************************************************************)
\* __init__: the two arguments are stored as they are passed, by reference.
RectDomain(minCorner, size) == [minCorner |-> minCorner, size |-> size]

\* __eq__
eq(h, self, other) ==
    /\ VecEq(h[self.minCorner], h[other.minCorner])
    /\ VecEq(h[self.size], h[other.size])

\* Variants of intersects with a plausible slip, used to test the properties.
\* The two y-axis tests are forgotten.
intersectsXOnly(h, self, domain) ==
    ~ \/ h[self.minCorner][1] > h[domain.minCorner][1] + h[domain.size][1]
      \/ h[self.minCorner][1] + h[self.size][1] < h[domain.minCorner][1]

\* The last test is forgotten.
intersectsNoTop(h, self, domain) ==
    ~ \/ h[self.minCorner][1] > h[domain.minCorner][1] + h[domain.size][1]
      \/ h[self.minCorner][2] > h[domain.minCorner][2] + h[domain.size][2]
      \/ h[self.minCorner][1] + h[self.size][1] < h[domain.minCorner][1]

\* >= and <= in place of > and <: touching rectangles do not intersect.
intersectsStrict(h, self, domain) ==
    ~ \/ h[self.minCorner][1] >= h[domain.minCorner][1] + h[domain.size][1]
      \/ h[self.minCorner][2] >= h[domain.minCorner][2] + h[domain.size][2]
      \/ h[self.minCorner][1] + h[self.size][1] <= h[domain.minCorner][1]
      \/ h[self.minCorner][2] + h[self.size][2] <= h[domain.minCorner][2]

intersects(h, self, domain) ==
    ~ \/ h[self.minCorner][1] > h[domain.minCorner][1] + h[domain.size][1]
      \/ h[self.minCorner][2] > h[domain.minCorner][2] + h[domain.size][2]
      \/ h[self.minCorner][1] + h[self.size][1] < h[domain.minCorner][1]
      \/ h[self.minCorner][2] + h[self.size][2] < h[domain.minCorner][2]

pointInside(h, self, point) ==
    LET localX == point[1] - h[self.minCorner][1]
        localY == point[2] - h[self.minCorner][2]
    IN  /\ localX >= 0
        /\ localY >= 0
        /\ localX <= h[self.size][1]
        /\ localY <= h[self.size][2]

\* A variant of reflectPoint with a slip: 2 * l and 2 * b in all four rows.
reflectPointMinOnly(h, self, point) ==
    LET l == h[self.minCorner][1]
        b == h[self.minCorner][2]
    IN  << <<Float32(2 * l - point[1]), Float32(point[2])>>,
           <<Float32(2 * l - point[1]), Float32(point[2])>>,
           <<Float32(point[1]), Float32(2 * b - point[2])>>,
           <<Float32(point[1]), Float32(2 * b - point[2])>> >>

\* The four rows of the float32 array: left, right, bottom, top.
reflectPoint(h, self, point) ==
    LET l == h[self.minCorner][1]
        b == h[self.minCorner][2]
        r == l + h[self.size][1]
        t == b + h[self.size][2]
    IN  << <<Float32(2 * l - point[1]), Float32(point[2])>>,
           <<Float32(2 * r - point[1]), Float32(point[2])>>,
           <<Float32(point[1]), Float32(2 * b - point[2])>>,
           <<Float32(point[1]), Float32(2 * t - point[2])>> >>

\* The sorted endpoints of the two rectangles along axis i.
Endpoints(h, self, domain, i) ==
    Sort(<< h[self.minCorner][i], h[domain.minCorner][i],
            h[self.minCorner][i] + h[self.size][i],
            h[domain.minCorner][i] + h[domain.size][i] >>)

\* Variants of intersection with a plausible slip, used to test the properties.
\* X[0], X[3] in place of X[1], X[2]: the outer endpoints.
intersectionOuter(h, self, domain) ==
    IF ~ intersects(h, self, domain)
    THEN [none |-> TRUE, minCorner |-> Free, size |-> Free]
    ELSE LET X == Endpoints(h, self, domain, 1)
             Y == Endpoints(h, self, domain, 2)
         IN  [none |-> FALSE, minCorner |-> Vector2(X[1], Y[1]),
              size |-> VecSub(Vector2(X[4], Y[4]), Vector2(X[1], Y[1]))]

\* RectDomain( minCorner, maxCorner ): the subtraction is forgotten.
intersectionNoSub(h, self, domain) ==
    IF ~ intersects(h, self, domain)
    THEN [none |-> TRUE, minCorner |-> Free, size |-> Free]
    ELSE LET X == Endpoints(h, self, domain, 1)
             Y == Endpoints(h, self, domain, 2)
         IN  [none |-> FALSE, minCorner |-> Vector2(X[2], Y[2]),
              size |-> Vector2(X[3], Y[3])]

\* The test of intersects is forgotten.
intersectionNoGuard(h, self, domain) ==
    LET X == Endpoints(h, self, domain, 1)
        Y == Endpoints(h, self, domain, 2)
    IN  [none |-> FALSE, minCorner |-> Vector2(X[2], Y[2]),
         size |-> VecSub(Vector2(X[3], Y[3]), Vector2(X[2], Y[2]))]

\* minCorner - maxCorner in place of maxCorner - minCorner.
intersectionSwappedSub(h, self, domain) ==
    IF ~ intersects(h, self, domain)
    THEN [none |-> TRUE, minCorner |-> Free, size |-> Free]
    ELSE LET X == Endpoints(h, self, domain, 1)
             Y == Endpoints(h, self, domain, 2)
         IN  [none |-> FALSE, minCorner |-> Vector2(X[2], Y[2]),
              size |-> VecSub(Vector2(X[2], Y[2]), Vector2(X[3], Y[3]))]

\* The value intersection returns: none for None, else the two new vectors.
intersection(h, self, domain) ==
    IF ~ intersects(h, self, domain)
    THEN [none |-> TRUE, minCorner |-> Free, size |-> Free]
    ELSE LET X == Sort(<< h[self.minCorner][1], h[domain.minCorner][1],
                          h[self.minCorner][1] + h[self.size][1],
                          h[domain.minCorner][1] + h[domain.size][1] >>)
             Y == Sort(<< h[self.minCorner][2], h[domain.minCorner][2],
                          h[self.minCorner][2] + h[self.size][2],
                          h[domain.minCorner][2] + h[domain.size][2] >>)
             minCorner == Vector2(X[2], Y[2])
             maxCorner == Vector2(X[3], Y[3])
         IN  [none |-> FALSE, minCorner |-> minCorner,
              size |-> VecSub(maxCorner, minCorner)]

\* copy.deepcopy of a Vector2: a new object with the same components.
deepcopy(v) == Vector2(v[1], v[2])

\* A variant of copyDomain with a slip: the references are copied, not the objects.
copyDomainShallow(h, d, self, domain, f1, f2) ==
    [heap |-> h,
     dom  |-> [d EXCEPT ![self] = RectDomain(d[domain].minCorner, d[domain].size)]]

\* copyDomain: self's fields become the new objects f1 and f2, copies of domain's.
copyDomain(h, d, self, domain, f1, f2) ==
    [heap |-> [h EXCEPT ![f1] = deepcopy(h[d[domain].minCorner]),
                        ![f2] = deepcopy(h[d[domain].size])],
     dom  |-> [d EXCEPT ![self] = RectDomain(f1, f2)]]

(***************************************************************************)
(* Object identity.  A Vector2 is alive while a RectDomain the caller      *)
(* holds, or the RectDomain last returned, refers to it.  Identities are   *)
(* arbitrary: a new object gets identities no live object has, and after   *)
(* every call the live objects are renumbered in the order the fields      *)
(* A.minCorner, A.size, B.minCorner, B.size, ret.minCorner, ret.size first *)
(* mention them, so that states differing only by a renaming of objects    *)
(* are one state.                                                          *)
(***************************************************************************)
Constructed(d) == {r \in DomIds : d[r] # None}

DomRefs(d) == UNION {{d[r].minCorner, d[r].size} : r \in Constructed(d)}

Min(S) == CHOOSE x \in S : \A y \in S : x <= y

Fresh1(d) == Min(VecIds \ DomRefs(d))

Fresh2(d) == Min(VecIds \ (DomRefs(d) \cup {Fresh1(d)}))

CanAllocate(d) == Cardinality(VecIds \ DomRefs(d)) >= 2

\* The references held, in field order (NullId for a missing RectDomain).
Fields(d, rt) ==
    << d["A"].minCorner, d["A"].size, d["B"].minCorner, d["B"].size,
       rt.rect.minCorner, rt.rect.size >>

\* The live identities in order of first mention.
RECURSIVE FirstMentions(_, _)
FirstMentions(f, seen) ==
    IF f = <<>> THEN seen
    ELSE IF Head(f) = NullId \/ \E k \in 1..Len(seen) : seen[k] = Head(f)
         THEN FirstMentions(Tail(f), seen)
         ELSE FirstMentions(Tail(f), Append(seen, Head(f)))

Rank(order, i) == IF i = NullId THEN NullId ELSE CHOOSE k \in 1..Len(order) : order[k] = i

Renamed(order, rect) == [minCorner |-> Rank(order, rect.minCorner), size |-> Rank(order, rect.size)]

\* The state after a call that leaves heap h, rectangles d and return record rt.
Settle(h, d, rt) ==
    LET order == FirstMentions(Fields(d, rt), <<>>)
    IN  [heap |-> [i \in VecIds |-> IF i <= Len(order) THEN h[order[i]] ELSE Free],
         dom  |-> [r \in DomIds |-> Renamed(order, d[r])],
         ret  |-> [rt EXCEPT !.rect = Renamed(order, rt.rect)]]

\* The next state.  When no RectDomain field changes and no RectDomain is
\* returned or dropped, the live objects and their order are what they were.
Becomes(h, d, rt) ==
    IF d = dom /\ ret.rect = None /\ rt.rect = None
    THEN heap' = h /\ dom' = d /\ ret' = rt
    ELSE LET after == Settle(h, d, rt)
         IN  heap' = after.heap /\ dom' = after.dom /\ ret' = after.ret

\* A call that creates no object and changes none.
Returns(rt) == Becomes(heap, dom, rt)

(***************************************************************************)
(* Inputs.                                                                 *)
(***************************************************************************)
SmallCoords == 0..MaxSmall

SmallVecs == {Vector2(x, y) : x, y \in SmallCoords}

\* Sizes: construction validates nothing, a negative size is accepted.
Sizes == (-1)..MaxSize

GridRects == {<<Vector2(x, y), Vector2(w, g)>> :
                 x \in 0..MaxCoord, y \in 0..MaxCoord, w \in Sizes, g \in Sizes}

\* The rectangles of testIntersection: d, then the four distinct test domains.
TestD == <<Vector2(0, 0), Vector2(5, 5)>>

TestCases == << <<Vector2(6, 6), Vector2(1, 1)>>,
                <<Vector2(1, 1), Vector2(3, 3)>>,
                <<Vector2(-1, -1), Vector2(2, 2)>>,
                <<Vector2(-1, 1), Vector2(2, 2)>> >>

TestRects == {TestD} \cup {TestCases[i] : i \in 1..4}

PairRects == GridRects \cup TestRects

\* Rectangles near 0 and around 2^24, where float32 starts to round integers.
Origins == {0, Float32Exact - 1}

Extents == (-1)..MaxExtent

PointRects == {<<Vector2(ox, oy), Vector2(w, g)>> :
                  ox \in Origins, oy \in Origins, w \in Extents, g \in Extents}

\* Offsets of a query point from the rectangle's minimum corner.
Offsets == (-PointPad)..(MaxExtent + PointPad)

(***************************************************************************)
(* Initial states.                                                         *)
(***************************************************************************)
\* No RectDomain constructed yet.
Init ==
    /\ heap = [i \in VecIds |-> Free]
    /\ dom = [r \in DomIds |-> None]
    /\ ret = NoRet

\* A and B constructed, each from two Vector2 objects of its own.
InitPair ==
    \E ra \in PairRects, rb \in PairRects :
        /\ heap = [i \in VecIds |->
                     CASE i = 1 -> ra[1] [] i = 2 -> ra[2]
                       [] i = 3 -> rb[1] [] i = 4 -> rb[2]
                       [] OTHER -> Free]
        /\ dom = [r \in DomIds |->
                     IF r = "A" THEN RectDomain(1, 2) ELSE RectDomain(3, 4)]
        /\ ret = NoRet

\* A constructed from two Vector2 objects of its own.
InitPoint ==
    \E ra \in PointRects :
        /\ heap = [i \in VecIds |->
                     CASE i = 1 -> ra[1] [] i = 2 -> ra[2] [] OTHER -> Free]
        /\ dom = [r \in DomIds |-> IF r = "A" THEN RectDomain(1, 2) ELSE None]
        /\ ret = NoRet

(***************************************************************************)
(* Actions: one per call the caller can make.                              *)
(***************************************************************************)
\* An argument of the constructor: a Vector2 some RectDomain already refers to
\* (<<id, its value>>), or a Vector2 the caller has just made (<<NullId, value>>).
CtorArgs(h, d) == {<<i, h[i]>> : i \in DomRefs(d)} \cup {<<NullId, v>> : v \in SmallVecs}

\* r = RectDomain( m, s )
New(r, m, s) ==
    /\ dom[r] = None
    /\ CanAllocate(dom)
    /\ LET mid == IF m[1] # NullId THEN m[1] ELSE Fresh1(dom)
           sid == IF s[1] # NullId THEN s[1]
                  ELSE IF m[1] # NullId THEN Fresh1(dom) ELSE Fresh2(dom)
       IN  Becomes([heap EXCEPT ![mid] = m[2], ![sid] = s[2]],
                   [dom EXCEPT ![r] = RectDomain(mid, sid)],
                   [NoRet EXCEPT !.op = "init", !.self = r])

\* a.copyDomain( b )
CopyDomain(a, b) ==
    /\ dom[a] # None
    /\ dom[b] # None
    /\ CanAllocate(dom)
    /\ LET after == copyDomain(heap, dom, a, b, Fresh1(dom), Fresh2(dom))
       IN  Becomes(after.heap, after.dom,
                   [NoRet EXCEPT !.op = "copyDomain", !.self = a, !.other = b])

\* The caller assigns x to component i of the Vector2 object v, in place.
MutateVector(v, i, x) ==
    /\ v \in DomRefs(dom)
    /\ heap[v][i] # x
    /\ Becomes([heap EXCEPT ![v][i] = x], dom, [NoRet EXCEPT !.op = "mutate"])

\* a == b
Eq(a, b) ==
    /\ dom[a] # None
    /\ dom[b] # None
    /\ Returns([NoRet EXCEPT !.op = "eq", !.self = a, !.other = b,
                          !.bool = eq(heap, dom[a], dom[b])])

\* a.intersects( b )
Intersects(a, b) ==
    /\ dom[a] # None
    /\ dom[b] # None
    /\ Returns([NoRet EXCEPT !.op = "intersects", !.self = a, !.other = b,
                          !.bool = intersects(heap, dom[a], dom[b])])

\* a.intersection( b ): None, or a new RectDomain of two new Vector2 objects.
Intersection(a, b) ==
    /\ dom[a] # None
    /\ dom[b] # None
    /\ CanAllocate(dom)
    /\ LET res == intersection(heap, dom[a], dom[b])
           f1  == Fresh1(dom)
           f2  == Fresh2(dom)
       IN  Becomes(IF res.none THEN heap
                   ELSE [heap EXCEPT ![f1] = res.minCorner, ![f2] = res.size],
                   dom,
                   [NoRet EXCEPT !.op = "intersection", !.self = a, !.other = b,
                                 !.rect = IF res.none THEN None ELSE RectDomain(f1, f2)])

\* a.pointInside( p )
PointInside(a, p) ==
    /\ dom[a] # None
    /\ Returns([NoRet EXCEPT !.op = "pointInside", !.self = a, !.point = p,
                          !.bool = pointInside(heap, dom[a], p)])

\* a.reflectPoint( p )
ReflectPoint(a, p) ==
    /\ dom[a] # None
    /\ Returns([NoRet EXCEPT !.op = "reflectPoint", !.self = a, !.point = p,
                          !.pts = reflectPoint(heap, dom[a], p)])

\* The query points tried on rectangle a: offsets from its minimum corner.
PointsNear(a) == {Vector2(heap[dom[a].minCorner][1] + i, heap[dom[a].minCorner][2] + j) :
                     i \in Offsets, j \in Offsets}

(***************************************************************************)
(* Specifications.                                                         *)
(***************************************************************************)
\* Object lifecycle: construction, copyDomain, in-place changes of vectors, ==.
Next ==
    \/ \E r \in DomIds : \E m \in CtorArgs(heap, dom), s \in CtorArgs(heap, dom) : New(r, m, s)
    \/ \E a \in DomIds, b \in DomIds : CopyDomain(a, b)
    \/ \E v \in VecIds, i \in 1..2, x \in SmallCoords : MutateVector(v, i, x)
    \/ \E a \in DomIds, b \in DomIds : Eq(a, b)

Spec == Init /\ [][Next]_vars

\* Two rectangles: intersects, intersection.
NextPair ==
    \/ \E a \in DomIds, b \in DomIds : Intersects(a, b)
    \/ \E a \in DomIds, b \in DomIds : Intersection(a, b)

SpecPair == InitPair /\ [][NextPair]_vars

\* One rectangle and a point: pointInside, reflectPoint.
NextPoint ==
    \/ \E a \in Constructed(dom) : \E p \in PointsNear(a) : PointInside(a, p)
    \/ \E a \in Constructed(dom) : \E p \in PointsNear(a) : ReflectPoint(a, p)

SpecPoint == InitPoint /\ [][NextPoint]_vars

(***************************************************************************)
(* Vocabulary of the properties.                                           *)
(***************************************************************************)
\* The rectangles of the last call.
Self == dom[ret.self]

Other == dom[ret.other]

\* The value of a rectangle: its corner and its size.
Val(h, rect) == <<h[rect.minCorner], h[rect.size]>>

NonNegative(h, rect) == h[rect.size][1] >= 0 /\ h[rect.size][2] >= 0

MinOf(h, rect, i) == h[rect.minCorner][i]

MaxOf(h, rect, i) == h[rect.minCorner][i] + h[rect.size][i]

Larger(x, y) == IF x >= y THEN x ELSE y

Smaller(x, y) == IF x <= y THEN x ELSE y

\* Probe points: every integer point of a box that holds all the rectangles of
\* SpecPair (grid and test rectangles) with a margin of PointPad.
ProbeCoords == (-1 - PointPad)..(Larger(7, MaxCoord + MaxSize) + PointPad)

ProbePoints == {Vector2(x, y) : x, y \in ProbeCoords}

\* Some point lies in both closed rectangles.
CommonPoint(h, a, b) ==
    \E p \in ProbePoints : pointInside(h, a, p) /\ pointInside(h, b, p)

\* a lies strictly beyond b, or b beyond a, along axis i.
Beyond(h, a, b, i) == MinOf(h, a, i) > MaxOf(h, b, i) \/ MinOf(h, b, i) > MaxOf(h, a, i)

\* An edge of a lies on the opposite edge of b along axis i.
EdgeOnEdge(h, a, b, i) == MaxOf(h, a, i) = MinOf(h, b, i) \/ MaxOf(h, b, i) = MinOf(h, a, i)

\* The intersection as the textbook gives it.
ReferenceIntersection(h, a, b) ==
    LET x == Larger(MinOf(h, a, 1), MinOf(h, b, 1))
        y == Larger(MinOf(h, a, 2), MinOf(h, b, 2))
    IN  << Vector2(x, y),
           Vector2(Smaller(MaxOf(h, a, 1), MaxOf(h, b, 1)) - x,
                   Smaller(MaxOf(h, a, 2), MaxOf(h, b, 2)) - y) >>

IntersectionCalled == ret.op = "intersection"

IntersectionReturned == ret.op = "intersection" /\ ret.rect # None

C2_IntersectionIsReference ==
    IntersectionCalled =>
       /\ (NonNegative(heap, Self) /\ NonNegative(heap, Other) /\ intersects(heap, Self, Other))
          => /\ ret.rect # None
             /\ Val(heap, ret.rect) = ReferenceIntersection(heap, Self, Other)
       /\ (Val(heap, Self) = TestD /\ Val(heap, Other) = TestCases[2])
          => ret.rect # None /\ Val(heap, ret.rect) = <<Vector2(1, 1), Vector2(3, 3)>>
       /\ (Val(heap, Self) = TestD /\ Val(heap, Other) = TestCases[3])
          => ret.rect # None /\ Val(heap, ret.rect) = <<Vector2(0, 0), Vector2(1, 1)>>
       /\ (Val(heap, Self) = TestD /\ Val(heap, Other) = TestCases[4])
          => ret.rect # None /\ Val(heap, ret.rect) = <<Vector2(0, 1), Vector2(1, 2)>>

\* The last test case: d with min(-1,1) size(2,2) gave min(0,1) size(1,2).
C2_Witness ==
    /\ IntersectionReturned
    /\ Val(heap, Self) = TestD
    /\ Val(heap, Other) = TestCases[4]
    /\ Val(heap, ret.rect) = <<Vector2(0, 1), Vector2(1, 2)>>

C4_IntersectsSymmetric ==
    ret.op = "intersects" => (ret.bool <=> intersects(heap, Other, Self))

\* Two different rectangles, one of negative size, that intersects reports true for.
C4_Witness ==
    /\ ret.op = "intersects"
    /\ ret.self # ret.other
    /\ Val(heap, Self) # Val(heap, Other)
    /\ ~ NonNegative(heap, Self)
    /\ ret.bool

(***************************************************************************)
(* C5: when A lies strictly beyond B along the x-axis or the y-axis, and   *)
(* when A and B have non-negative sizes and no point in common,            *)
(* A.intersection(B) is None; d of the test with min(6,6) size(1,1) is     *)
(* such a case.                                                            *)
(***************************************************************************)
C5_DisjointGivesNone ==
    IntersectionCalled =>
       /\ (Beyond(heap, Self, Other, 1) \/ Beyond(heap, Self, Other, 2)) => ret.rect = None
       /\ (NonNegative(heap, Self) /\ NonNegative(heap, Other) /\ ~ CommonPoint(heap, Self, Other))
          => ret.rect = None
       /\ (Val(heap, Self) = TestD /\ Val(heap, Other) = TestCases[1]) => ret.rect = None

\* The first test case.
C5_Witness ==
    /\ IntersectionCalled
    /\ Val(heap, Self) = TestD
    /\ Val(heap, Other) = TestCases[1]
    /\ ret.rect = None

(***************************************************************************)
(* C6: when A and B, of non-negative size, have a point in common and an   *)
(* edge of one lies on the opposite edge of the other (they touch along an *)
(* edge or at a corner), A.intersection(B) is not None and has zero width  *)
(* or zero height.                                                         *)
(***************************************************************************)
C6_TouchGivesDegenerate ==
    (/\ IntersectionCalled
     /\ NonNegative(heap, Self) /\ NonNegative(heap, Other)
     /\ CommonPoint(heap, Self, Other)
     /\ (EdgeOnEdge(heap, Self, Other, 1) \/ EdgeOnEdge(heap, Self, Other, 2)))
    => /\ ret.rect # None
       /\ heap[ret.rect.size][1] = 0 \/ heap[ret.rect.size][2] = 0

\* Two rectangles with an area that share an edge: zero width, positive height.
C6_Witness ==
    /\ IntersectionReturned
    /\ heap[Self.size][1] > 0 /\ heap[Self.size][2] > 0
    /\ heap[Other.size][1] > 0 /\ heap[Other.size][2] > 0
    /\ MaxOf(heap, Self, 1) = MinOf(heap, Other, 1)
    /\ heap[ret.rect.size][1] = 0
    /\ heap[ret.rect.size][2] > 0

(***************************************************************************)
(* C10: whatever the sizes of A and B, negative ones included, a non-null  *)
(* A.intersection(B) has size.x >= 0 and size.y >= 0.                      *)
(***************************************************************************)
C10_ResultSizeNonNegative ==
    IntersectionReturned => NonNegative(heap, ret.rect)

\* A of negative width and height, and a result with an area.
C10_Witness ==
    /\ IntersectionReturned
    /\ heap[Self.size][1] < 0 /\ heap[Self.size][2] < 0
    /\ heap[ret.rect.size][1] > 0 /\ heap[ret.rect.size][2] > 0

(***************************************************************************)
(* C7 as the specification states it: for a point P inside D, each of the  *)
(* four reflections R of P has D.pointInside(R) false, unless D has zero   *)
(* width (left, right) or zero height (bottom, top).                       *)
(***************************************************************************)
ReflectedInside == ret.op = "reflectPoint" /\ pointInside(heap, Self, ret.point)

\* Rows 1 and 2 (left, right) reflect along axis 1, rows 3 and 4 along axis 2.
AxisOf(i) == IF i <= 2 THEN 1 ELSE 2

BoundaryOf(h, rect, i) == IF i \in {1, 3} THEN MinOf(h, rect, AxisOf(i)) ELSE MaxOf(h, rect, AxisOf(i))

\* The mirror image of the point's coordinate in boundary line i.
Mirrored(i) == 2 * BoundaryOf(heap, Self, i) - ret.point[AxisOf(i)]

Representable(v) == Float32(v) = v

OnBoundary(i) == ret.point[AxisOf(i)] = BoundaryOf(heap, Self, i)

C7_RoundedOntoRectangle ==
    /\ ReflectedInside
    /\ \E i \in 1..4 :
          /\ ~ Representable(Mirrored(i))
          /\ pointInside(heap, Self, ret.pts[i])
          /\ ~ OnBoundary(i)

(***************************************************************************)
(* C8: a.copyDomain(b) leaves a equal to b and does not change b; from     *)
(* then on a and b share no vector, so that a change in place of a vector  *)
(* of b, or a later b.copyDomain(c), does not change a.                    *)
(***************************************************************************)
Shares(d, a, b) ==
    {d[a].minCorner, d[a].size} \cap {d[b].minCorner, d[b].size} # {}

Apart(d, a, b) == a # b /\ d[a] # None /\ d[b] # None /\ ~ Shares(d, a, b)

C8_CopyDomainDeepCopies ==
    [][\A a \in DomIds, b \in DomIds :
          /\ (ret'.op = "copyDomain" /\ ret'.self = a /\ ret'.other = b)
             => /\ eq(heap', dom'[a], dom'[b])
                /\ Val(heap', dom'[b]) = Val(heap, dom[b])
                /\ a # b => Apart(dom', a, b)
          /\ Apart(dom, a, b) => Apart(dom', a, b)
          /\ (/\ Apart(dom, a, b)
              /\ \/ /\ ret'.op = "mutate"
                    /\ \E v \in {dom[b].minCorner, dom[b].size} : heap'[v] # heap[v]
                 \/ ret'.op = "copyDomain" /\ ret'.self = b)
             => Val(heap', dom'[a]) = Val(heap, dom[a])
      ]_vars

\* A.copyDomain(B) has just returned, A having been built on B's own vectors:
\* A equals B and they share nothing any more.
C8_Witness ==
    /\ ret.op = "copyDomain" /\ ret.self = "A" /\ ret.other = "B"
    /\ Apart(dom, "A", "B")
    /\ eq(heap, dom["A"], dom["B"])
    /\ heap[dom["B"].minCorner] # heap[dom["B"].size]

(***************************************************************************)
(* C9 as the specification states it: a rectangle shares no vector with    *)
(* its caller or with another rectangle, so its value changes only through *)
(* copyDomain called on it.                                                *)
(***************************************************************************)
C9_ValueChangesOnlyByCopyDomain ==
    [][\A r \in DomIds :
          (dom[r] # None /\ Val(heap', dom'[r]) # Val(heap, dom[r]))
          => (ret'.op = "copyDomain" /\ ret'.self = r)
      ]_vars

====
